---- MODULE Spec2Model ----
(***************************************************************************)
(* Import pipeline of the strapi import/export plugin: format parsers      *)
(* (server/src/services/import/parsers.js) and the import service          *)
(* (importData, importOtherSlug, updateOrCreate, updateOrCreateRelation).  *)
(*                                                                         *)
(* JavaScript values are tagged records; a JavaScript object is a function *)
(* from Fields to values in which Undef stands for an absent property.     *)
(* A function of the code that may throw is an operator that returns a     *)
(* record with an err field ("" when nothing was thrown).                  *)
(***************************************************************************)
EXTENDS Integers, Sequences, FiniteSets, TLC

\* Longest record sequence of one import call.
MaxLen == 2
\* Number of calls of the service in one behaviour.
MaxCalls == 1

----------------------------------------------------------------------------
\* JavaScript values

Undef == [t |-> "undef"]
Null == [t |-> "null"]
Num(n) == [t |-> "num", n |-> n]
Str(s) == [t |-> "str", s |-> s]
ObjV(o) == [t |-> "obj", o |-> o]
ArrV(a) == [t |-> "arr", a |-> a]
Bool(b) == [t |-> "bool", b |-> b]

Fields == {"id", "name", "publishedAt", "tag", "createdBy", "__component",
           "configuration", "version", "published_at"}

\* The object with the properties of the record f and no other.
Mk(f) == [k \in Fields |-> IF k \in DOMAIN f THEN f[k] ELSE Undef]

NoObj == Mk(<<>>)

\* JavaScript truthiness, as used by if (x), !x and x || y.
Truthy(v) ==
  CASE v.t = "undef" -> FALSE
    [] v.t = "null" -> FALSE
    [] v.t = "num" -> v.n # 0
    [] v.t = "str" -> v.s # ""
    [] v.t = "bool" -> v.b
    [] OTHER -> TRUE

\* x == null
IsNullish(v) == v.t \in {"undef", "null"}

\* libs/arrays.js and libs/objects.js
IsArraySafe(v) == v.t = "arr"
IsObjectSafe(v) == v.t = "obj"
ToArray(v) == IF IsArraySafe(v) THEN v.a ELSE <<v>>

\* Reading a property of a value: of an object its property, of a string or
\* a number undefined. (null and undefined throw; the callers test for them.)
Get(v, k) == IF v.t = "obj" THEN v.o[k] ELSE Undef

----------------------------------------------------------------------------
\* Schema (utils/models.js: getModel, getModelAttributes)

Models == {"item", "home", "tag"}

\* model.kind
Kind(slug) == IF slug = "home" THEN "singleType" ELSE "collectionType"

\* getModelAttributes(slug, { filterType: ['component', 'dynamiczone',
\* 'media', 'relation'] }), in schema order.
RelationAttributes(slug) ==
  CASE slug = "item" ->
         << [name |-> "tag", type |-> "relation", target |-> "tag",
             repeatable |-> FALSE, multiple |-> FALSE],
            [name |-> "createdBy", type |-> "relation", target |-> "admin",
             repeatable |-> FALSE, multiple |-> FALSE] >>
    [] slug = "home" ->
         << [name |-> "tag", type |-> "component", target |-> "tag",
             repeatable |-> FALSE, multiple |-> FALSE] >>
    [] OTHER -> << >>

\* Models whose name column carries a unique constraint in the store.
UniqueName == {"item", "tag"}

\* The acting user.
User == [id |-> Num(9)]

----------------------------------------------------------------------------
\* The entity store (strapi.db.query(slug)): per model the entities in
\* insertion order. The store assigns ids, casts an id given as text to a
\* number, and rejects a write that breaks a unique constraint.

Digits ==
  [d \in {"1", "2", "3", "5"} |-> CASE d = "1" -> 1 [] d = "2" -> 2 [] d = "3" -> 3 [] OTHER -> 5]

\* The store's cast of a value to an id; 0 when it is no id.
CastId(v) ==
  CASE v.t = "num" -> IF v.n > 0 THEN v.n ELSE 0
    [] v.t = "str" -> IF v.s \in DOMAIN Digits THEN Digits[v.s] ELSE 0
    [] OTHER -> 0

EntityIds(db, slug) == {db[slug][i]["id"].n : i \in 1..Len(db[slug])}

NextId(db, slug) ==
  IF db[slug] = << >> THEN 1
  ELSE 1 + CHOOSE m \in EntityIds(db, slug) : \A n \in EntityIds(db, slug) : n <= m

Matches(e, field, v) ==
  IF field = "id" THEN CastId(v) # 0 /\ e["id"].n = CastId(v) ELSE e[field] = v

\* Index of the first entity matching { [field]: v }, 0 when there is none.
FindIndex(db, slug, field, v) ==
  LET hits == {i \in 1..Len(db[slug]) : Matches(db[slug][i], field, v)}
  IN IF hits = {} THEN 0 ELSE CHOOSE i \in hits : \A j \in hits : i <= j

\* Another entity than the one with id `self` already has the name of data.
NameClash(db, slug, data, self) ==
  /\ slug \in UniqueName
  /\ data["name"].t = "str"
  /\ \E i \in 1..Len(db[slug]) :
       db[slug][i]["id"].n # self /\ db[slug][i]["name"] = data["name"]

\* One store operation as the log keeps it: the arguments, whether the store
\* accepted it, the entity it returned and the nesting depth of the upsert
\* that issued it.
LogEntry(op, slug, id, data, ok, entry, depth) ==
  [op |-> op, slug |-> slug, id |-> id, data |-> data, ok |-> ok, entry |-> entry,
   depth |-> depth]

\* strapi.db.query(slug).create({ data })
DbCreate(st, slug, data, depth) ==
  LET db == st.db
      want == CastId(data["id"])
      bad == (want # 0 /\ want \in EntityIds(db, slug)) \/ NameClash(db, slug, data, 0)
      id == IF want # 0 THEN want ELSE NextId(db, slug)
      entry == [data EXCEPT !["id"] = Num(id)]
      log == Append(st.log, LogEntry("create", slug, 0, data, ~bad,
                                     IF bad THEN Undef ELSE ObjV(entry), depth))
  IN IF bad
     THEN [st |-> [db |-> db, log |-> log], entry |-> Undef, err |-> "unique constraint"]
     ELSE [st |-> [db |-> [db EXCEPT ![slug] = Append(@, entry)], log |-> log],
           entry |-> ObjV(entry), err |-> ""]

\* strapi.db.query(slug).update({ where: { id }, data })
DbUpdate(st, slug, id, data, depth) ==
  LET db == st.db
      i == FindIndex(db, slug, "id", Num(id))
      bad == NameClash(db, slug, data, id)
      entry == [k \in Fields |->
                  IF k = "id" \/ data[k] = Undef THEN db[slug][i][k] ELSE data[k]]
      log == Append(st.log, LogEntry("update", slug, id, data, ~bad,
                                     IF bad THEN Undef ELSE ObjV(entry), depth))
  IN IF bad
     THEN [st |-> [db |-> db, log |-> log], entry |-> Undef, err |-> "unique constraint"]
     ELSE [st |-> [db |-> [db EXCEPT ![slug][i] = entry], log |-> log],
           entry |-> ObjV(entry), err |-> ""]

\* strapi.db.query(slug).findOne({ where: { [field]: v } })
DbFindOne(st, slug, field, v, depth) ==
  LET i == FindIndex(st.db, slug, field, v)
      entry == IF i = 0 THEN Null ELSE ObjV(st.db[slug][i])
  IN [st |-> [st EXCEPT !.log = Append(@, LogEntry("findOne", slug, 0,
                                             Mk([x \in {field} |-> v]), TRUE, entry, depth))],
      entry |-> entry]

\* strapi.db.query(slug).findMany()
DbFindMany(st, slug, depth) ==
  [st |-> [st EXCEPT !.log = Append(@, LogEntry("findMany", slug, 0, NoObj, TRUE,
                                                Undef, depth))],
   entries |-> st.db[slug]]

----------------------------------------------------------------------------
\* The upsert engine

Thrown(st, data, err) == [st |-> st, data |-> data, entry |-> Undef, err |-> err]

\* What an upsert returns: the result w of its store write, and data as the
\* upsert left it.
Written(w, data) == [st |-> w.st, data |-> data, entry |-> w.entry, err |-> w.err]

\* Mutant: the lookup is skipped and every record is created.
UpdateOrCreateCollectionType_NoLookup(slug, data, idField, st, depth) ==
  LET d == IF idField # "id" THEN ObjV([data.o EXCEPT !["id"] = Undef]) ELSE data
  IN Written(DbCreate(st, slug, d.o, depth), d)

\* Mutant: a record without identifying value is looked up with an empty
\* filter, which the first entity of the model matches.
UpdateOrCreateCollectionType_EmptyWhere(slug, data, idField, st, depth) ==
  LET d == IF idField # "id" THEN ObjV([data.o EXCEPT !["id"] = Undef]) ELSE data
      Found(f) ==
        IF Truthy(f.entry)
        THEN Written(DbUpdate(f.st, slug, f.entry.o["id"].n, d.o, depth), d)
        ELSE Written(DbCreate(f.st, slug, d.o, depth), d)
  IN Found(IF Truthy(data.o[idField])
           THEN DbFindOne(st, slug, idField, data.o[idField], depth)
           ELSE [st |-> st, entry |-> IF st.db[slug] = << >> THEN Null
                                      ELSE ObjV(st.db[slug][1])])

UpdateOrCreateCollectionType(slug, data, idField, st, depth) ==
  LET hasWhere == Truthy(data.o[idField])
      whereValue == data.o[idField]
      d == IF idField # "id" THEN ObjV([data.o EXCEPT !["id"] = Undef]) ELSE data
      Found(f) ==
        IF Truthy(f.entry)
        THEN Written(DbUpdate(f.st, slug, f.entry.o["id"].n, d.o, depth), d)
        ELSE Written(DbCreate(f.st, slug, d.o, depth), d)
  IN IF ~hasWhere
     THEN Written(DbCreate(st, slug, d.o, depth), d)
     ELSE Found(DbFindOne(st, slug, idField, whereValue, depth))

\* Mutant: the existing entity is not looked up.
UpdateOrCreateSingleType_AlwaysCreate(slug, data, idField, st, depth) ==
  LET d == ObjV([data.o EXCEPT !["id"] = Undef])
  IN Written(DbCreate(st, slug, d.o, depth), d)

UpdateOrCreateSingleType(slug, data, idField, st, depth) ==
  LET d == ObjV([data.o EXCEPT !["id"] = Undef])
      Found(f) ==
        IF f.entries = << >>
        THEN Written(DbCreate(f.st, slug, d.o, depth), d)
        ELSE Written(DbUpdate(f.st, slug, f.entries[1]["id"].n, d.o, depth), d)
  IN Found(DbFindMany(st, slug, depth))

\* utils/file.js findOrImportFile: the media collaborator. A number or an
\* object with an id names an existing file; anything else is not a file
\* descriptor and is rejected.
FindOrImportFile(fileDatum) ==
  CASE fileDatum.t = "num" -> [media |-> ObjV(Mk([id |-> fileDatum])), err |-> ""]
    [] fileDatum.t = "obj" /\ Truthy(fileDatum.o["id"]) ->
         [media |-> ObjV(Mk([id |-> fileDatum.o["id"]])), err |-> ""]
    [] OTHER -> [media |-> Undef, err |-> "file not found"]

\* entryIds?.[0] || null
FirstOrNull(ids) == IF ids # << >> /\ Truthy(ids[1]) THEN ids[1] ELSE Null

\* relData.slice(0, 1)
Slice1(a) == IF a = << >> THEN << >> ELSE << a[1] >>

RECURSIVE UpdateOrCreate(_, _, _, _, _, _)
RECURSIVE UpdateOrCreateRelation(_, _, _, _, _)
RECURSIVE ResolveAttributes(_, _, _, _, _, _)
RECURSIVE EntryLoop(_, _, _, _, _, _, _)
RECURSIVE ComponentsLoop(_, _, _, _, _, _)
RECURSIVE MediaLoop(_, _, _)

\* Mutant: a nested sub-record is identified by its name.
EntryLoop_ByName(user, target, relData, i, entryIds, st, depth) ==
  IF i > Len(relData) THEN [st |-> st, ids |-> entryIds, err |-> ""]
  ELSE IF relData[i].t = "num"
  THEN EntryLoop(user, target, relData, i + 1, Append(entryIds, relData[i]), st, depth)
  ELSE IF IsObjectSafe(relData[i])
  THEN LET Upserted(r) ==
             IF r.err # "" THEN [st |-> r.st, ids |-> entryIds, err |-> r.err]
             ELSE EntryLoop(user, target, relData, i + 1,
                            IF Truthy(Get(r.entry, "id"))
                            THEN Append(entryIds, r.entry.o["id"]) ELSE entryIds,
                            r.st, depth)
       IN Upserted(UpdateOrCreate(user, target, relData[i], "name", st, depth + 1))
  ELSE EntryLoop(user, target, relData, i + 1, entryIds, st, depth)

\* The loop of the component and relation branches: a number is kept, an
\* object is upserted against the target model and replaced by its id.
EntryLoop(user, target, relData, i, entryIds, st, depth) ==
  IF i > Len(relData) THEN [st |-> st, ids |-> entryIds, err |-> ""]
  ELSE LET relDatum == relData[i]
       IN IF relDatum.t = "num"
          THEN EntryLoop(user, target, relData, i + 1, Append(entryIds, relDatum), st, depth)
          ELSE IF IsObjectSafe(relDatum)
          THEN LET Upserted(r) ==
                     IF r.err # "" THEN [st |-> r.st, ids |-> entryIds, err |-> r.err]
                     ELSE EntryLoop(user, target, relData, i + 1,
                                    IF Truthy(Get(r.entry, "id"))
                                    THEN Append(entryIds, r.entry.o["id"]) ELSE entryIds,
                                    r.st, depth)
               IN Upserted(UpdateOrCreate(user, target, relDatum, "id", st, depth + 1))
          ELSE EntryLoop(user, target, relData, i + 1, entryIds, st, depth)

\* The loop of the dynamiczone branch.
ComponentsLoop(user, relData, i, components, st, depth) ==
  IF i > Len(relData) THEN [st |-> st, components |-> components, err |-> ""]
  ELSE LET componentDatum == relData[i]
       IN IF IsNullish(componentDatum)
          THEN [st |-> st, components |-> components, err |-> "TypeError"]
          ELSE LET slug == Get(componentDatum, "__component")
                   Upserted(r) ==
                     IF r.err # ""
                     THEN [st |-> r.st, components |-> components, err |-> r.err]
                     ELSE ComponentsLoop(user, relData, i + 1,
                            Append(components,
                                   ObjV([(IF r.entry.t = "obj" THEN r.entry.o ELSE NoObj)
                                           EXCEPT !["__component"] = slug])),
                            r.st, depth)
               IN Upserted(UpdateOrCreate(user, IF slug.t = "str" THEN slug.s ELSE "",
                                          componentDatum, "id", st, depth + 1))

\* The loop of the media branch.
MediaLoop(relData, i, entryIds) ==
  IF i > Len(relData) THEN [ids |-> entryIds, err |-> ""]
  ELSE LET Found(m) ==
             IF m.err # "" THEN [ids |-> entryIds, err |-> m.err]
             ELSE MediaLoop(relData, i + 1,
                            IF Truthy(Get(m.media, "id"))
                            THEN Append(entryIds, m.media.o["id"]) ELSE entryIds)
       IN Found(FindOrImportFile(relData[i]))

\* What the component, media and relation branches return: the ids the loop
\* r collected, all of them or the first.
Collected(r, st, many) ==
  [st |-> st, err |-> r.err, val |-> IF many THEN ArrV(r.ids) ELSE FirstOrNull(r.ids)]

\* Mutant: the audit fields are resolved like any other relation.
UpdateOrCreateRelation_NoAudit(user, rel, relData, st, depth) ==
  IF IsNullish(relData) THEN [st |-> st, val |-> Null, err |-> ""]
  ELSE LET Looped(r) == Collected(r, r.st, IsArraySafe(relData))
       IN Looped(EntryLoop(user, rel.target, ToArray(relData), 1, << >>, st, depth))

\* Mutant: the relation branch shapes its result by the attribute's declared
\* cardinality, as the media branch does.
UpdateOrCreateRelation_DeclaredCardinality(user, rel, relData, st, depth) ==
  IF IsNullish(relData) THEN [st |-> st, val |-> Null, err |-> ""]
  ELSE IF rel.name \in {"createdBy", "updatedBy"}
  THEN [st |-> st, val |-> user.id, err |-> ""]
  ELSE LET Looped(r) == Collected(r, r.st, IF rel.type = "relation" THEN rel.multiple
                                           ELSE rel.repeatable)
       IN Looped(EntryLoop(user, rel.target,
                           IF rel.type = "relation" \/ rel.repeatable THEN ToArray(relData)
                           ELSE Slice1(ToArray(relData)),
                           1, << >>, st, depth))

\* Mutant: a field the record does not supply stays absent.
UpdateOrCreateRelation_KeepAbsent(user, rel, relData, st, depth) ==
  IF IsNullish(relData) THEN [st |-> st, val |-> relData, err |-> ""]
  ELSE IF rel.name \in {"createdBy", "updatedBy"}
  THEN [st |-> st, val |-> user.id, err |-> ""]
  ELSE LET Looped(r) == Collected(r, r.st, IF rel.type = "relation" THEN IsArraySafe(relData)
                                           ELSE rel.repeatable)
       IN Looped(EntryLoop(user, rel.target,
                           IF rel.type = "relation" \/ rel.repeatable THEN ToArray(relData)
                           ELSE Slice1(ToArray(relData)),
                           1, << >>, st, depth))

UpdateOrCreateRelation(user, rel, relData, st, depth) ==
  IF IsNullish(relData) THEN [st |-> st, val |-> Null, err |-> ""]
  ELSE IF rel.name \in {"createdBy", "updatedBy"}
  THEN [st |-> st, val |-> user.id, err |-> ""]
  ELSE IF rel.type = "dynamiczone"
  THEN IF relData.t \in {"num", "obj"} /\ Truthy(relData)
       THEN [st |-> st, val |-> Undef, err |-> "TypeError"]
       ELSE LET items == IF relData.t = "arr" THEN relData.a
                         ELSE IF relData.t = "str"
                         THEN [k \in 1..(IF relData.s = "" THEN 0 ELSE 1) |-> relData]
                         ELSE << >>
                Looped(r) == [st |-> r.st, val |-> ArrV(r.components), err |-> r.err]
            IN Looped(ComponentsLoop(user, items, 1, << >>, st, depth))
  ELSE IF rel.type = "component"
  THEN LET all == ToArray(relData)
           items == IF rel.repeatable THEN all ELSE Slice1(all)
           Looped(r) == Collected(r, r.st, rel.repeatable)
       IN Looped(EntryLoop(user, rel.target, items, 1, << >>, st, depth))
  ELSE IF rel.type = "media"
  THEN LET all == ToArray(relData)
           items == IF rel.multiple THEN all ELSE Slice1(all)
       IN Collected(MediaLoop(items, 1, << >>), st, rel.multiple)
  ELSE IF rel.type = "relation"
  THEN LET isMultiple == IsArraySafe(relData)
           Looped(r) == Collected(r, r.st, isMultiple)
       IN Looped(EntryLoop(user, rel.target, ToArray(relData), 1, << >>, st, depth))
  ELSE [st |-> st, val |-> Undef, err |-> "Could not update or create relation"]

\* Mutant: the resolver runs, but the field keeps the value it had.
ResolveAttributes_KeepRaw(user, attributes, k, data, st, depth) ==
  IF k > Len(attributes) THEN [st |-> st, data |-> data, err |-> ""]
  ELSE IF IsNullish(data) THEN [st |-> st, data |-> data, err |-> "TypeError"]
  ELSE LET Resolved(r) ==
             IF r.err # "" THEN [st |-> r.st, data |-> data, err |-> r.err]
             ELSE IF data.t # "obj" THEN [st |-> r.st, data |-> data, err |-> "TypeError"]
             ELSE ResolveAttributes(user, attributes, k + 1, data, r.st, depth)
       IN Resolved(UpdateOrCreateRelation(user, attributes[k],
                                          Get(data, attributes[k].name), st, depth))

\* The loop over the relation attributes in updateOrCreate: each field of
\* data is overwritten in place with the resolver's result. Assigning a
\* property of a string or a number throws (the modules are strict code).
ResolveAttributes(user, attributes, k, data, st, depth) ==
  IF k > Len(attributes) THEN [st |-> st, data |-> data, err |-> ""]
  ELSE LET attribute == attributes[k]
       IN IF IsNullish(data) THEN [st |-> st, data |-> data, err |-> "TypeError"]
          ELSE LET Resolved(r) ==
                     IF r.err # "" THEN [st |-> r.st, data |-> data, err |-> r.err]
                     ELSE IF data.t # "obj"
                     THEN [st |-> r.st, data |-> data, err |-> "TypeError"]
                     ELSE ResolveAttributes(user, attributes, k + 1,
                                            ObjV([data.o EXCEPT ![attribute.name] = r.val]),
                                            r.st, depth)
               IN Resolved(UpdateOrCreateRelation(user, attribute,
                                                  Get(data, attribute.name), st, depth))

\* updateOrCreate(user, slug, data, idField = 'id'). The result carries data
\* as the call left it: the caller's object is modified in place.
UpdateOrCreate(user, slug, data, idField, st, depth) ==
  IF slug \notin Models THEN Thrown(st, data, "TypeError")
  ELSE LET Resolved(a) ==
             IF a.err # "" THEN Thrown(a.st, a.data, a.err)
             ELSE IF Kind(slug) = "singleType"
             THEN UpdateOrCreateSingleType(slug, a.data, idField, a.st, depth)
             ELSE UpdateOrCreateCollectionType(slug, a.data, idField, a.st, depth)
       IN Resolved(ResolveAttributes(user, RelationAttributes(slug), 1, data, st, depth))

----------------------------------------------------------------------------
\* Parsers (server/src/services/import/parsers.js). A JSON text is the value
\* it encodes in a wrapper, [t |-> "json", v |-> value]; a text that is no
\* JSON is a plain string.

JsonText(v) == [t |-> "json", v |-> v]

\* JSON.parse
JsonParse(raw) ==
  CASE raw.t = "json" -> [val |-> raw.v, err |-> ""]
    [] raw.t = "str" /\ raw.s \in DOMAIN Digits -> [val |-> Num(Digits[raw.s]), err |-> ""]
    [] raw.t = "str" /\ raw.s = "null" -> [val |-> Null, err |-> ""]
    [] raw.t = "num" -> [val |-> raw, err |-> ""]
    [] OTHER -> [val |-> Undef, err |-> "SyntaxError"]

\* JSON.stringify
JsonStringify(v) == IF v.t = "undef" THEN Undef ELSE JsonText(v)

\* new Date(x).toISOString() of a text, Undef for an invalid date.
DateToISO(v) ==
  CASE v.t = "str" /\ v.s = "2024-01-01" -> Str("2024-01-01T00:00:00.000Z")
    [] v.t = "str" /\ v.s = "2024-01-01T00:00:00.000Z" -> v
    [] OTHER -> Undef

\* getModelAttributes(slug, { filterType: [...] }).map((a) => a.name)
RelationNames(slug) ==
  {RelationAttributes(slug)[k].name : k \in 1..Len(RelationAttributes(slug))}
DateTimeFields(slug, dp) == IF slug \in dp THEN {"publishedAt"} ELSE {}
BooleanFields(slug) == {}
NumberFields(slug) == {}

\* Mutant: a cell that is no JSON keeps its text.
CsvRelationCell_KeepText(v) ==
  IF Truthy(v) /\ v # Str("null") /\ v # Str("undefined")
  THEN LET p == JsonParse(v) IN IF p.err = "" THEN p.val ELSE v
  ELSE Null

\* One cell of a relation column.
CsvRelationCell(v) ==
  IF Truthy(v) /\ v # Str("null") /\ v # Str("undefined")
  THEN LET p == JsonParse(v) IN IF p.err = "" THEN p.val ELSE Null
  ELSE Null

\* One cell of a date column.
CsvDateCell(v) ==
  IF Truthy(v) /\ v # Str("null")
  THEN IF DateToISO(v) # Undef THEN DateToISO(v) ELSE v
  ELSE IF v = Str("null") \/ v = Str("") THEN Null ELSE v

\* One cell of a boolean column.
CsvBooleanCell(v) ==
  IF v = Undef THEN v
  ELSE IF v \in {Str("true"), Str("1"), Bool(TRUE)} THEN Bool(TRUE)
  ELSE IF v \in {Str("false"), Str("0"), Bool(FALSE)} THEN Bool(FALSE)
  ELSE IF v \in {Str("null"), Str("")} THEN Null ELSE v

\* Number(x) of a cell, Undef for NaN.
ToNumber(v) ==
  CASE v.t = "num" -> v
    [] v.t = "str" /\ v.s \in DOMAIN Digits -> Num(Digits[v.s])
    [] v.t = "str" /\ v.s = "0" -> Num(0)
    [] OTHER -> Undef

\* One cell of a number column.
CsvNumberCell(v) ==
  IF v # Undef /\ v # Str("") /\ v # Str("null")
  THEN IF ToNumber(v) # Undef THEN ToNumber(v) ELSE Null
  ELSE IF v = Str("null") \/ v = Str("") THEN Null ELSE v

\* The publish-state rule at the end of the row mapping of parseCsv.
CsvPublishedAt(o, hasDraftAndPublish, importAsDrafts) ==
  IF hasDraftAndPublish /\ importAsDrafts THEN [o EXCEPT !["publishedAt"] = Null]
  ELSE IF ~hasDraftAndPublish /\ o["publishedAt"] # Undef
  THEN [o EXCEPT !["publishedAt"] = Undef]
  ELSE o

\* parseCsv: dataRaw.rows are the rows csvtojson decodes, each cell a string.
ParseCsv(dataRaw, slug, importAsDrafts, dp) ==
  IF dataRaw.t # "csv" THEN [val |-> Undef, err |-> "csv parse error"]
  ELSE LET Row(datum) ==
             LET o == [k \in Fields |->
                         IF k \in RelationNames(slug) THEN CsvRelationCell(datum[k])
                         ELSE IF k \in DateTimeFields(slug, dp) THEN CsvDateCell(datum[k])
                         ELSE IF k \in BooleanFields(slug) THEN CsvBooleanCell(datum[k])
                         ELSE IF k \in NumberFields(slug) THEN CsvNumberCell(datum[k])
                         ELSE datum[k]]
             IN ObjV(CsvPublishedAt(o, slug \in dp, importAsDrafts))
       IN [val |-> ArrV([i \in 1..Len(dataRaw.rows) |-> Row(dataRaw.rows[i])]), err |-> ""]

\* { ...item, publishedAt: null }
SpreadWithDraft(item) ==
  ObjV([(IF item.t = "obj" THEN item.o ELSE NoObj) EXCEPT !["publishedAt"] = Null])

\* const { publishedAt, ...rest } = item
RestWithoutPublishedAt(item) ==
  ObjV([(IF item.t = "obj" THEN item.o ELSE NoObj) EXCEPT !["publishedAt"] = Undef])

\* typeof data === 'object'
TypeofObject(v) == v.t \in {"obj", "arr", "null"}

\* parseJson
ParseJson(dataRaw, slug, importAsDrafts, dp) ==
  LET p == JsonParse(dataRaw)
      data == p.val
      hasDraftAndPublish == slug \in dp
  IN IF p.err # "" THEN p
     ELSE IF hasDraftAndPublish /\ importAsDrafts
     THEN IF data.t = "arr"
          THEN [val |-> ArrV([i \in 1..Len(data.a) |-> SpreadWithDraft(data.a[i])]), err |-> ""]
          ELSE IF TypeofObject(data)
          THEN IF data.t = "null" THEN [val |-> Undef, err |-> "TypeError"]
               ELSE [val |-> ObjV([data.o EXCEPT !["publishedAt"] = Null]), err |-> ""]
          ELSE [val |-> data, err |-> ""]
     ELSE IF ~hasDraftAndPublish
     THEN IF data.t = "arr"
          THEN IF \E i \in 1..Len(data.a) : IsNullish(data.a[i])
               THEN [val |-> Undef, err |-> "TypeError"]
               ELSE [val |-> ArrV([i \in 1..Len(data.a) |-> RestWithoutPublishedAt(data.a[i])]),
                     err |-> ""]
          ELSE IF TypeofObject(data)
          THEN IF data.t = "null" THEN [val |-> Undef, err |-> "TypeError"]
               ELSE [val |-> ObjV([data.o EXCEPT !["publishedAt"] = Undef]), err |-> ""]
          ELSE [val |-> data, err |-> ""]
     ELSE [val |-> data, err |-> ""]

\* parseJso
ParseJso(dataRaw) ==
  IF ~IsObjectSafe(dataRaw) /\ ~IsArraySafe(dataRaw)
  THEN [val |-> Undef, err |-> "To import JSO, data must be an array or an object"]
  ELSE [val |-> dataRaw, err |-> ""]

\* The row mapping of parsePostgresJson.
PostgresTransform(item, hasDraftAndPublish, importAsDrafts) ==
  LET configuration == IF Get(item, "configuration").t \in {"str", "json"}
                       THEN Get(item, "configuration")
                       ELSE JsonStringify(Get(item, "configuration"))
      version == IF Truthy(Get(item, "version")) THEN Get(item, "version") ELSE Str("main")
      base == Mk([name |-> Get(item, "name"), configuration |-> configuration,
                  version |-> version])
      src == Get(item, "published_at")
  IN IF ~hasDraftAndPublish THEN base
     ELSE IF importAsDrafts THEN [base EXCEPT !["publishedAt"] = Null]
     ELSE IF src.t = "undef" THEN base
     ELSE IF src.t = "null" THEN [base EXCEPT !["publishedAt"] = Null]
     ELSE [base EXCEPT !["publishedAt"] = DateToISO(src)]

\* parsePostgresJson
ParsePostgresJson(dataRaw, slug, importAsDrafts, dp) ==
  LET p == JsonParse(dataRaw)
      data == IF IsArraySafe(p.val) THEN p.val.a ELSE << p.val >>
  IN IF p.err # "" \/ \E i \in 1..Len(data) : IsNullish(data[i])
     THEN [val |-> Undef, err |-> "Failed to parse PostgreSQL JSON"]
     ELSE [val |-> ArrV([i \in 1..Len(data) |->
                           ObjV(PostgresTransform(data[i], slug \in dp, importAsDrafts))]),
           err |-> ""]

InputFormats == {"csv", "jso", "json", "postgres"}

\* Mutant: a format without a parser is passed through undecoded.
ParseInputData_PassThrough(format, dataRaw, slug, importAsDrafts, dp) ==
  CASE format = "csv" -> ParseCsv(dataRaw, slug, importAsDrafts, dp)
    [] format = "jso" -> ParseJso(dataRaw)
    [] format = "json" -> ParseJson(dataRaw, slug, importAsDrafts, dp)
    [] format = "postgres" -> ParsePostgresJson(dataRaw, slug, importAsDrafts, dp)
    [] OTHER -> [val |-> dataRaw, err |-> ""]

\* parseInputData
ParseInputData(format, dataRaw, slug, importAsDrafts, dp) ==
  CASE format = "csv" -> ParseCsv(dataRaw, slug, importAsDrafts, dp)
    [] format = "jso" -> ParseJso(dataRaw)
    [] format = "json" -> ParseJson(dataRaw, slug, importAsDrafts, dp)
    [] format = "postgres" -> ParsePostgresJson(dataRaw, slug, importAsDrafts, dp)
    [] OTHER -> [val |-> Undef, err |-> "Data input format " \o format \o " is not supported."]

----------------------------------------------------------------------------
\* The import service: importData and importOtherSlug, one loop iteration
\* per step.

VARIABLES
  store,            \* the entity store: model -> entities in insertion order
  draftAndPublish,  \* the models whose options.draftAndPublish is true
  pc,               \* "idle", "running" (inside importOtherSlug), "returned"
  call,             \* the arguments of the call in progress
  input,            \* importOtherSlug: the record sequence as it was passed in
  data,             \* importOtherSlug: the record sequence, modified in place
  processed,        \* importOtherSlug: one result per record attempted
  ops,              \* the store operations the call has issued, in order
  ret,              \* what the call returned or threw
  store0,           \* the store when the call started
  calls             \* calls of the service started so far

vars == <<store, draftAndPublish, pc, call, input, data, processed, ops, ret, store0, calls>>

NoCall == [fn |-> "", dataRaw |-> Undef, slug |-> "", format |-> "", idField |-> "",
           importAsDrafts |-> FALSE]
NoRet == [fn |-> "", threw |-> FALSE, error |-> "", failures |-> << >>, parsed |-> Undef]

EmptyStore == [m \in Models |-> << >>]

\* A store that earlier imports have filled: one entity of every model,
\* published where the model has draft/publish.
FilledStore(dp) ==
  LET E(m, name) == Mk([id |-> Num(1), name |-> Str(name),
                        publishedAt |-> IF m \in dp THEN Str("2023-01-01T00:00:00.000Z")
                                        ELSE Undef])
  IN [m \in Models |-> << E(m, CASE m = "item" -> "b" [] m = "tag" -> "t" [] OTHER -> "h") >>]

\* Inputs

TS == Str("2024-01-01T00:00:00.000Z")

JsonRecords ==
  { ObjV(Mk([name |-> Str("a"), tag |-> ObjV(Mk([name |-> Str("t")]))])),
    ObjV(Mk([id |-> Num(1), name |-> Str("c"), publishedAt |-> TS, createdBy |-> Null])),
    ObjV(Mk([name |-> Str("b"), publishedAt |-> TS, createdBy |-> Num(5),
             tag |-> ObjV(Mk([name |-> Str("u"), publishedAt |-> TS]))])) }

CsvRow(id, name, publishedAt, tag, createdBy) ==
  Mk([id |-> id, name |-> name, publishedAt |-> publishedAt, tag |-> tag,
      createdBy |-> createdBy])

CsvRows ==
  { CsvRow(Str(""), Str("a"), Str(""), Str(""), Str("oops")),
    CsvRow(Str("1"), Str("c"), Str("2024-01-01"),
           JsonText(ObjV(Mk([name |-> Str("u"), publishedAt |-> TS]))), Str("5")) }

PostgresRows ==
  { ObjV(Mk([name |-> Str("a"), configuration |-> Str("cfg"),
             published_at |-> Str("2024-01-01")])),
    ObjV(Mk([id |-> Num(1), name |-> Str("b"), configuration |-> ObjV(NoObj),
             version |-> Str("v2"), published_at |-> Null])) }

SeqsUpTo(S, n) == UNION {[1..k -> S] : k \in 0..n}

\* The raw inputs of each format; "xml" is a format without a parser.
RawInputs(format) ==
  CASE format = "jso" ->
         {ArrV(q) : q \in SeqsUpTo(JsonRecords, MaxLen)} \cup JsonRecords \cup {Str("x")}
    [] format = "json" ->
         {JsonText(ArrV(<< r >>)) : r \in JsonRecords}
           \cup {JsonText(r) : r \in JsonRecords} \cup {Str("{")}
    [] format = "csv" -> {[t |-> "csv", rows |-> q] : q \in SeqsUpTo(CsvRows, MaxLen)}
    [] format = "postgres" ->
         {JsonText(ArrV(<< r >>)) : r \in PostgresRows}
           \cup {JsonText(r) : r \in PostgresRows} \cup {Str("{")}
    [] OTHER -> {Str("<a/>")}

Formats == InputFormats \cup {"xml"}
Slugs == {"item", "home"}
IdFields == {"id", "name"}

Init ==
  /\ draftAndPublish \in {{}, Models}
  /\ store \in {EmptyStore, FilledStore(draftAndPublish)}
  /\ pc = "idle"
  /\ call = NoCall
  /\ input = << >>
  /\ data = << >>
  /\ processed = << >>
  /\ ops = << >>
  /\ ret = NoRet
  /\ store0 = store
  /\ calls = 0

\* importData up to the call of importOtherSlug.
ImportStart(dataRaw, slug, format, idField, importAsDrafts) ==
  /\ pc = "idle"
  /\ calls < MaxCalls
  /\ LET hasDraftAndPublish == slug \in draftAndPublish
         shouldApplyDraftMode == IF hasDraftAndPublish THEN importAsDrafts ELSE FALSE
         Parsed(p) ==
           IF p.err # ""
           THEN /\ pc' = "returned"
                /\ ret' = [NoRet EXCEPT !.fn = "importData", !.threw = TRUE, !.error = p.err]
                /\ data' = << >>
           ELSE /\ pc' = "running"
                /\ ret' = NoRet
                /\ data' = ToArray(p.val)
     IN /\ call' = [fn |-> "importData", dataRaw |-> dataRaw, slug |-> slug,
                    format |-> format, idField |-> idField,
                    importAsDrafts |-> importAsDrafts]
        /\ Parsed(IF format = "jso" THEN [val |-> dataRaw, err |-> ""]
                  ELSE ParseInputData(format, dataRaw, slug, shouldApplyDraftMode,
                                      draftAndPublish))
        /\ input' = data'
  /\ processed' = << >>
  /\ ops' = << >>
  /\ store0' = store
  /\ calls' = calls + 1
  /\ UNCHANGED <<store, draftAndPublish>>

\* Mutant: the loop ends at the first record that fails.
MoreRecords_StopOnFailure(done, all) ==
  Len(done) < Len(all) /\ \A k \in 1..Len(done) : done[k].success

\* The loop condition of importOtherSlug: i < data.length.
MoreRecords(done, all) == Len(done) < Len(all)

\* One iteration of the loop of importOtherSlug.
ProcessRecord ==
  /\ pc = "running"
  /\ MoreRecords(processed, data)
  /\ LET i == Len(processed) + 1
         datum == data[i]
         hasDraftAndPublish == call.slug \in draftAndPublish
         stripped == IF ~hasDraftAndPublish /\ Get(datum, "publishedAt") # Undef
                     THEN ObjV([datum.o EXCEPT !["publishedAt"] = Undef])
                     ELSE datum
         Attempted(r) ==
           /\ store' = r.st.db
           /\ ops' = r.st.log
           /\ data' = [data EXCEPT ![i] = r.data]
           /\ processed' = Append(processed,
                [success |-> r.err = "", error |-> r.err, args |-> r.data,
                 orig |-> datum, lo |-> Len(ops) + 1, hi |-> Len(r.st.log)])
     IN Attempted(IF IsNullish(datum)
                  THEN Thrown([db |-> store, log |-> ops], datum, "TypeError")
                  ELSE UpdateOrCreate(User, call.slug, stripped, call.idField,
                                      [db |-> store, log |-> ops], 0))
  /\ UNCHANGED <<draftAndPublish, pc, call, input, ret, store0, calls>>

\* processed.filter((p) => !p.success).map(...)
Failures(done) ==
  LET F[k \in 0..Len(done)] ==
        IF k = 0 THEN << >>
        ELSE IF done[k].success THEN F[k - 1]
        ELSE Append(F[k - 1], [error |-> done[k].error, data |-> done[k].args])
  IN F[Len(done)]

\* The end of importOtherSlug and of importData.
ImportReturn ==
  /\ pc = "running"
  /\ ~MoreRecords(processed, data)
  /\ pc' = "returned"
  /\ ret' = [NoRet EXCEPT !.fn = "importData", !.failures = Failures(processed)]
  /\ UNCHANGED <<store, draftAndPublish, call, input, data, processed, ops, store0, calls>>

\* parseInputData called on its own (the import controller does so first).
ParseCall(dataRaw, slug, format, importAsDrafts) ==
  /\ pc = "idle"
  /\ calls < MaxCalls
  /\ LET Parsed(p) == ret' = [NoRet EXCEPT !.fn = "parseInputData", !.threw = p.err # "",
                                           !.error = p.err, !.parsed = p.val]
     IN Parsed(ParseInputData(format, dataRaw, slug, importAsDrafts, draftAndPublish))
  /\ pc' = "returned"
  /\ call' = [NoCall EXCEPT !.fn = "parseInputData", !.dataRaw = dataRaw, !.slug = slug,
                            !.format = format, !.importAsDrafts = importAsDrafts]
  /\ store0' = store
  /\ input' = << >>
  /\ data' = << >>
  /\ processed' = << >>
  /\ ops' = << >>
  /\ calls' = calls + 1
  /\ UNCHANGED <<store, draftAndPublish>>

\* The caller takes the result; the service is idle again.
Return ==
  /\ pc = "returned"
  /\ pc' = "idle"
  /\ call' = NoCall
  /\ ret' = NoRet
  /\ input' = << >>
  /\ data' = << >>
  /\ processed' = << >>
  /\ ops' = << >>
  /\ store0' = store
  /\ UNCHANGED <<store, draftAndPublish, calls>>

Next ==
  \/ \E format \in Formats, slug \in Slugs, idField \in IdFields, importAsDrafts \in BOOLEAN :
       \E dataRaw \in RawInputs(format) :
         ImportStart(dataRaw, slug, format, idField, importAsDrafts)
  \/ ProcessRecord
  \/ ImportReturn
  \/ \E format \in Formats, slug \in Slugs, importAsDrafts \in BOOLEAN :
       \E dataRaw \in RawInputs(format) : ParseCall(dataRaw, slug, format, importAsDrafts)
  \/ Return

Spec == Init /\ [][Next]_vars

\* The delimited-text parser on its own, on rows whose relation cells are
\* empty, the text "null", the text "undefined", no JSON, and JSON.
CellRows ==
  { CsvRow(Str(""), Str("a"), Str(""), Str(""), Str("null")),
    CsvRow(Str("1"), Str("c"), Str("null"), Str("{"), Str("undefined")),
    CsvRow(Str("2"), Str("d"), Str("2024-01-01"),
           JsonText(ObjV(Mk([name |-> Str("u")]))), Str("5")) }

NextCsv ==
  \/ \E slug \in Slugs, importAsDrafts \in BOOLEAN :
       \E rows \in SeqsUpTo(CellRows, MaxLen) :
         ParseCall([t |-> "csv", rows |-> rows], slug, "csv", importAsDrafts)
  \/ Return

SpecCsv == Init /\ [][NextCsv]_vars

\* The import of records whose relational field is a bare id, an array of
\* ids and sub-records, and a sub-record that carries an id.
NestedRecords ==
  { ObjV(Mk([name |-> Str("a"),
             tag |-> ArrV(<< Num(1), ObjV(Mk([configuration |-> Str("k")])) >>)])),
    ObjV(Mk([name |-> Str("c"), tag |-> Num(1)])),
    ObjV(Mk([name |-> Str("d"), tag |-> ObjV(Mk([id |-> Num(1), name |-> Str("v")]))])) }

NextNested ==
  \/ \E slug \in Slugs, idField \in IdFields :
       \E q \in SeqsUpTo(NestedRecords, MaxLen) :
         ImportStart(ArrV(q), slug, "jso", idField, TRUE)
  \/ ProcessRecord
  \/ ImportReturn
  \/ Return

SpecNested == Init /\ [][NextNested]_vars

----------------------------------------------------------------------------
\* Properties

IsWrite(o) == o.op \in {"create", "update"}

\* The positions in ops of the operations record k issued.
OpsOf(done, k) == done[k].lo .. done[k].hi

\* The writes record k issued for itself, not for a nested sub-record.
OwnWrites(log, done, k) == {j \in OpsOf(done, k) : IsWrite(log[j]) /\ log[j].depth = 0}

\* The step is one iteration of the import loop.
LoopStep == pc = "running" /\ Len(processed') = Len(processed) + 1

\* Every nested store write of the record the step processed was accepted:
\* its relation resolution raised no error.
ResolutionOk ==
  LET k == Len(processed')
  IN /\ processed'[k].orig.t = "obj"
     /\ \A j \in OpsOf(processed', k) : ops'[j].depth > 0 => ops'[j].ok

\* The entity of the imported model the record of the step identifies, as an
\* index into the store before the step; 0 when it identifies none.
Identified ==
  LET v == Get(processed'[Len(processed')].orig, call.idField)
  IN IF Truthy(v) THEN FindIndex(store, call.slug, call.idField, v) ELSE 0

SameIds(a, b) == Len(a) = Len(b) /\ \A i \in 1..Len(a) : a[i]["id"] = b[i]["id"]

\* C1: on a collection model, a record whose identifying-field value is
\* non-empty and is that of an existing entity is written by one update
\* addressed to that entity's store id and by no create; the entities of the
\* model and their ids stay as they were.
C1Step ==
  (LoopStep /\ Kind(call.slug) = "collectionType" /\ ResolutionOk /\ Identified # 0) =>
    LET k == Len(processed')
        own == OwnWrites(ops', processed', k)
    IN /\ Cardinality(own) = 1
       /\ \A j \in own : /\ ops'[j].op = "update"
                         /\ ops'[j].slug = call.slug
                         /\ ops'[j].id = store[call.slug][Identified]["id"].n
       /\ \A j \in OpsOf(processed', k) :
            ~(ops'[j].op = "create" /\ ops'[j].slug = call.slug)
       /\ SameIds(store'[call.slug], store[call.slug])

C1_UpsertUpdatesIdentified == [][C1Step]_vars

\* C1 witness: the same record was imported twice in a row on a collection
\* model; the first was created, the second updated it, one entity exists.
C1_Witness ==
  /\ Len(processed) = 2
  /\ Kind(call.slug) = "collectionType"
  /\ processed[1].orig = processed[2].orig
  /\ processed[1].success /\ processed[2].success
  /\ \E j \in OwnWrites(ops, processed, 1) : ops[j].op = "create"
  /\ \E j \in OwnWrites(ops, processed, 2) : ops[j].op = "update"
  /\ Len(store[call.slug]) = 1

CountOps(log, op, slug) == Cardinality({j \in 1..Len(log) : log[j].op = op /\ log[j].slug = slug})

\* C2: on a collection model, a record without identifying-field value, or
\* with one no entity has, is written by exactly one create on the model
\* and by no update.
C2Step ==
  (LoopStep /\ Kind(call.slug) = "collectionType" /\ ResolutionOk /\ Identified = 0) =>
    LET k == Len(processed')
        own == OwnWrites(ops', processed', k)
    IN /\ Cardinality(own) = 1
       /\ \A j \in own : ops'[j].op = "create" /\ ops'[j].slug = call.slug
       /\ \A j \in OpsOf(processed', k) :
            ~(ops'[j].op = "update" /\ ops'[j].slug = call.slug)

\* C2, the batch: two delimited-text rows, the first with an empty id, the
\* second with the id of an entity that existed before the call, end, when
\* the store accepted every write, in one create and one update on the model
\* and in no failure.
C2Batch ==
  (/\ pc = "returned" /\ call.fn = "importData" /\ ~ret.threw
   /\ call.format = "csv" /\ call.idField = "id" /\ Kind(call.slug) = "collectionType"
   /\ Len(processed) = 2
   /\ ~Truthy(Get(input[1], "id"))
   /\ FindIndex(store0, call.slug, "id", Get(input[2], "id")) # 0
   /\ \A j \in 1..Len(ops) : ops[j].ok) =>
    /\ CountOps(ops, "create", call.slug) = 1
    /\ CountOps(ops, "update", call.slug) = 1
    /\ ret.failures = << >>

C2_UpsertCreatesUnidentified == [][C2Step]_vars /\ []C2Batch

\* C2 witness: the batch of the scenario has returned without failure.
C2_Witness ==
  /\ pc = "returned" /\ call.fn = "importData" /\ ~ret.threw
  /\ call.format = "csv" /\ call.idField = "id" /\ Kind(call.slug) = "collectionType"
  /\ Len(processed) = 2
  /\ Get(input[1], "id") = Str("")
  /\ FindIndex(store0, call.slug, "id", Get(input[2], "id")) # 0
  /\ CountOps(ops, "create", call.slug) = 1
  /\ CountOps(ops, "update", call.slug) = 1
  /\ ret.failures = << >>

\* C3: no create or update on a model without draft/publish carries a
\* publishedAt property, whether the model is the imported one or one written
\* through the resolution of a relation, component or dynamic zone.
C3_NoPublishedAtWithoutDraftPublish ==
  \A j \in 1..Len(ops) :
    (IsWrite(ops[j]) /\ ops[j].slug \notin draftAndPublish) =>
      ops[j].data["publishedAt"] = Undef

\* The publish state of an entity: a stored timestamp, or null (a draft).
PublishState(e) == IF e["publishedAt"] = Undef THEN Null ELSE e["publishedAt"]

\* C4: with importAsDrafts on a model with draft/publish, every entity of
\* that model importData creates or updates is left unpublished, whatever
\* the format and whatever timestamp the source carries.
C4_DraftsWrittenUnpublished ==
  (call.fn = "importData" /\ call.importAsDrafts /\ call.slug \in draftAndPublish) =>
    \A j \in 1..Len(ops) :
      (IsWrite(ops[j]) /\ ops[j].ok /\ ops[j].slug = call.slug) =>
        PublishState(ops[j].entry.o) = Null

\* The call is importData inside or past the import loop.
InLoop == call.fn = "importData" /\ (pc = "running" \/ (pc = "returned" /\ ~ret.threw))
Returned == call.fn = "importData" /\ pc = "returned" /\ ~ret.threw

\* The records that failed, and the i-th of them in source order.
Failed(done) == {k \in 1..Len(done) : ~done[k].success}
NthFailed(done, i) ==
  CHOOSE k \in Failed(done) : Cardinality({m \in Failed(done) : m <= k}) = i

\* C5: the loop attempts the records one after the other in source order,
\* each once and whatever failed before; every record that did not raise is
\* persisted; the call returns after the last record with one failure entry
\* per record that raised, in source order.
C5_EveryRecordAttempted ==
  /\ InLoop =>
       /\ Len(processed) <= Len(input)
       /\ \A k \in 1..Len(processed) :
            /\ processed[k].orig = input[k]
            /\ processed[k].lo = (IF k = 1 THEN 1 ELSE processed[k - 1].hi + 1)
            /\ processed[k].success =>
                 \E j \in OwnWrites(ops, processed, k) :
                   /\ ops[j].ok /\ ops[j].slug = call.slug
                   /\ ops[j].entry.o["id"].n \in EntityIds(store, call.slug)
  /\ Returned =>
       /\ Len(processed) = Len(input)
       /\ Len(ret.failures) = Cardinality(Failed(processed))
       /\ \A i \in 1..Len(ret.failures) :
            /\ ret.failures[i].data = processed[NthFailed(processed, i)].args
            /\ ret.failures[i].error = processed[NthFailed(processed, i)].error

\* C5 witness: the first record raised in its relation resolution (a nested
\* write was rejected), the second was attempted all the same and persisted,
\* and the call returned the one failure.
C5_Witness ==
  /\ Returned
  /\ Len(processed) = 2
  /\ ~processed[1].success /\ processed[2].success
  /\ \E j \in OpsOf(processed, 1) : ops[j].depth > 0 /\ ~ops[j].ok
  /\ Len(ret.failures) = 1

\* C6: a single type never has more than one entity.
C6Inv == Len(store["home"]) <= 1

\* C6: an upsert on a single type drops the incoming id, creates the entity
\* when there is none and otherwise updates the one there is, which keeps its
\* id and takes every field value the record carries.
C6Step ==
  (LoopStep /\ Kind(call.slug) = "singleType" /\ processed'[Len(processed')].success) =>
    LET k == Len(processed')
        own == OwnWrites(ops', processed', k)
        slug == call.slug
    IN /\ Cardinality(own) = 1
       /\ Len(store'[slug]) = 1
       /\ \A j \in own :
            /\ ops'[j].slug = slug
            /\ ops'[j].data["id"] = Undef
            /\ IF store[slug] = << >> THEN ops'[j].op = "create"
               ELSE /\ ops'[j].op = "update"
                    /\ ops'[j].id = store[slug][1]["id"].n
                    /\ store'[slug][1]["id"] = store[slug][1]["id"]
            /\ \A f \in Fields \ {"id"} :
                 ops'[j].data[f] # Undef => store'[slug][1][f] = ops'[j].data[f]
       /\ Get(processed'[k].orig, "name") # Undef =>
            store'[slug][1]["name"] = Get(processed'[k].orig, "name")

C6_SingleTypeHasOneEntity == []C6Inv /\ [][C6Step]_vars

\* C6 witness: two different payloads were imported into the single type;
\* the first created the entity, the second updated it, and the one entity
\* has the name of the second.
C6_Witness ==
  /\ InLoop /\ Kind(call.slug) = "singleType"
  /\ Len(processed) = 2
  /\ processed[1].success /\ processed[2].success
  /\ Get(input[1], "name") # Get(input[2], "name")
  /\ \E j \in OwnWrites(ops, processed, 1) : ops[j].op = "create"
  /\ \E j \in OwnWrites(ops, processed, 2) : ops[j].op = "update"
  /\ Len(store[call.slug]) = 1
  /\ store[call.slug][1]["name"] = Get(input[2], "name")

\* C7: importData with format jso and an input that is neither an object
\* nor an array fails as a whole with the error of parseJso: no record is
\* attempted, no store operation issued, no failure list returned.
C7_InvalidShapeFails ==
  (/\ call.fn = "importData" /\ call.format = "jso"
   /\ ~IsObjectSafe(call.dataRaw) /\ ~IsArraySafe(call.dataRaw)) =>
    /\ pc = "returned"
    /\ ret.threw
    /\ ret.error = "To import JSO, data must be an array or an object"
    /\ processed = << >>
    /\ ops = << >>

\* C8: parseInputData and importData with a format that has no parser throw
\* an error that names the format, before any record is processed and any
\* store operation issued; the store is as it was.
C8_UnsupportedFormatFails ==
  (call.fn \in {"importData", "parseInputData"} /\ call.format \notin InputFormats) =>
    /\ pc = "returned"
    /\ ret.threw
    /\ ret.error = "Data input format " \o call.format \o " is not supported."
    /\ processed = << >>
    /\ ops = << >>
    /\ store = store0

\* C8 witness: importData was called with the format xml on a store that
\* holds entities, and threw.
C8_Witness ==
  /\ call.fn = "importData" /\ call.format = "xml"
  /\ pc = "returned" /\ ret.threw
  /\ store["item"] # << >>

\* C9: the data of every failure entry is the record as it entered the
\* import loop.
C9_FailureKeepsOriginal ==
  Returned =>
    \A i \in 1..Len(ret.failures) :
      ret.failures[i].data = processed[NthFailed(processed, i)].orig

\* The model has an attribute named createdBy or updatedBy.
HasAuditAttribute(slug) ==
  \E a \in 1..Len(RelationAttributes(slug)) :
    RelationAttributes(slug)[a].name \in {"createdBy", "updatedBy"}

\* C10 as claimed: whatever value a record supplies for createdBy, the
\* record is written with the acting user's id in it.
C10_AuditActorAlwaysUser ==
  InLoop =>
    \A k \in 1..Len(processed) : \A j \in OwnWrites(ops, processed, k) :
      (HasAuditAttribute(call.slug) /\ Get(processed[k].orig, "createdBy") # Undef) =>
        ops[j].data["createdBy"] = User.id

\* C10 as amended: a record is written with the acting user's id when it
\* supplies a value other than null for createdBy, and with null when it
\* supplies null or nothing; never with the value it supplied.
C10_AuditActorUserOrNull ==
  InLoop =>
    \A k \in 1..Len(processed) : \A j \in OwnWrites(ops, processed, k) :
      HasAuditAttribute(call.slug) =>
        ops[j].data["createdBy"] =
          (IF IsNullish(Get(processed[k].orig, "createdBy")) THEN Null ELSE User.id)

\* C10 witness: a record that named another user as createdBy was written
\* with the acting user's id.
C10_Witness ==
  /\ InLoop /\ HasAuditAttribute(call.slug)
  /\ \E k \in 1..Len(processed) : \E j \in OwnWrites(ops, processed, k) :
       /\ Get(processed[k].orig, "createdBy") = Num(5)
       /\ ops[j].ok
       /\ ops[j].data["createdBy"] = User.id

\* The cell is empty, the text "null", or not decodable as JSON.
Undecodable(cell) == cell \in {Str(""), Str("null")} \/ JsonParse(cell).err # ""

\* C11: parseCsv does not throw on the cells of relation, component, media
\* and dynamic-zone columns: it returns one parsed row per row of the text,
\* and a cell that is empty, the text "null" or no JSON is null in its row.
C11_RelationCellsNeverRaise ==
  (call.fn = "parseInputData" /\ call.format = "csv" /\ call.dataRaw.t = "csv") =>
    /\ pc = "returned"
    /\ ~ret.threw
    /\ ret.parsed.t = "arr"
    /\ Len(ret.parsed.a) = Len(call.dataRaw.rows)
    /\ \A i \in 1..Len(call.dataRaw.rows) : \A name \in RelationNames(call.slug) :
         Undecodable(call.dataRaw.rows[i][name]) => ret.parsed.a[i].o[name] = Null

\* C11 witness: two rows were parsed; the relation cell of the first was no
\* JSON and is null, the relation cell of the second was decoded.
C11_Witness ==
  /\ call.fn = "parseInputData" /\ call.format = "csv" /\ pc = "returned" /\ ~ret.threw
  /\ Len(call.dataRaw.rows) = 2
  /\ call.dataRaw.rows[1]["tag"] = Str("{")
  /\ ret.parsed.a[1].o["tag"] = Null
  /\ ret.parsed.a[2].o["tag"].t = "obj"

\* The ids of the entities the nested upserts of record k returned, in the
\* order of the upserts.
NestedIds(log, done, k) ==
  LET W == {j \in OpsOf(done, k) : IsWrite(log[j]) /\ log[j].depth = 1 /\ log[j].ok}
      F[j \in (done[k].lo - 1)..done[k].hi] ==
        IF j < done[k].lo THEN << >>
        ELSE IF j \in W THEN Append(F[j - 1], log[j].entry.o["id"]) ELSE F[j - 1]
  IN F[done[k].hi]

\* The entries with every number kept and every object replaced by the next
\* of ids.
RECURSIVE Replaced(_, _)
Replaced(entries, ids) ==
  IF entries = << >> THEN << >>
  ELSE IF Head(entries).t = "num" THEN << Head(entries) >> \o Replaced(Tail(entries), ids)
  ELSE IF Head(entries).t = "obj" /\ ids # << >>
  THEN << Head(ids) >> \o Replaced(Tail(entries), Tail(ids))
  ELSE Replaced(Tail(entries), ids)

\* C12: the relation field of a record is written with the shape it had in
\* the input, whatever the attribute's declared cardinality: an array as the
\* array of its entries, a scalar as one id; a number is kept, an object is
\* upserted against the target model and replaced by the id of the entity
\* the upsert returned. (The attributes createdBy and updatedBy are resolved
\* by their own rule.)
C12_RelationKeepsInputShape ==
  (InLoop /\ call.slug = "item") =>
    \A k \in 1..Len(processed) : \A j \in OwnWrites(ops, processed, k) :
      LET in == Get(processed[k].orig, "tag")
          out == ops[j].data["tag"]
          ids == NestedIds(ops, processed, k)
      IN /\ \A n \in OpsOf(processed, k) : ops[n].depth = 1 => ops[n].slug = "tag"
         /\ in.t = "arr" => out = ArrV(Replaced(in.a, ids))
         /\ in.t \in {"num", "obj"} => out = Replaced(<< in >>, ids)[1]

\* C12 witness: a record whose relation field was an array of an id and a
\* sub-record was written with the array of the id and the id of the entity
\* created for the sub-record.
C12_Witness ==
  /\ InLoop /\ call.slug = "item"
  /\ \E k \in 1..Len(processed) : \E j \in OwnWrites(ops, processed, k) :
       /\ Get(processed[k].orig, "tag").t = "arr"
       /\ Len(Get(processed[k].orig, "tag").a) = 2
       /\ ops[j].ok
       /\ ops[j].data["tag"].t = "arr"
       /\ ops[j].data["tag"].a[1] = Num(1)
       /\ \E n \in OpsOf(processed, k) :
            /\ ops[n].op = "create" /\ ops[n].slug = "tag" /\ ops[n].ok
            /\ ops[j].data["tag"].a[2] = ops[n].entry.o["id"]

\* What the resolver leaves in a field: null, an id, an array of ids, or,
\* for a dynamic zone, an array of the entities its components were
\* written as.
IsResolved(attribute, v) ==
  IF attribute.type = "dynamiczone"
  THEN v.t = "arr" /\ \A i \in 1..Len(v.a) : v.a[i].t = "obj"
  ELSE \/ v.t \in {"null", "num"}
       \/ v.t = "arr" /\ \A i \in 1..Len(v.a) : v.a[i].t = "num"

\* C13: every store operation an upsert issues for the resolution of the
\* record's relation, component, media and dynamic-zone attributes comes
\* before the record's own create or update, and the data of every create
\* and update holds a resolved value in each such attribute of its model.
C13_ResolutionBeforeWrite ==
  InLoop =>
    \A k \in 1..Len(processed) : \A j \in OpsOf(processed, k) :
      IsWrite(ops[j]) =>
        /\ \A a \in 1..Len(RelationAttributes(ops[j].slug)) :
             IsResolved(RelationAttributes(ops[j].slug)[a],
                        ops[j].data[RelationAttributes(ops[j].slug)[a].name])
        /\ ops[j].depth = 0 =>
             \A n \in OpsOf(processed, k) : ops[n].depth > 0 => n < j

\* C13 witness: a record with a sub-record in its relation field was
\* written, after the entity of the sub-record, with that entity's id.
C13_Witness ==
  /\ InLoop
  /\ \E k \in 1..Len(processed) : \E j \in OwnWrites(ops, processed, k) :
       /\ Get(processed[k].orig, "tag").t = "obj"
       /\ ops[j].ok
       /\ \E n \in OpsOf(processed, k) :
            /\ n < j /\ ops[n].depth = 1 /\ IsWrite(ops[n]) /\ ops[n].ok
            /\ ops[j].data["tag"] = ops[n].entry.o["id"]

\* The sub-records the resolver upserts for the field tag of a record of
\* the model: the objects among the entries of the field, the first entry
\* only for a component that is not repeatable.
SubRecords(slug, record) ==
  LET rel == RelationAttributes(slug)[1]
      v == Get(record, "tag")
      all == IF IsNullish(v) THEN << >> ELSE ToArray(v)
      entries == IF rel.type = "component" /\ ~rel.repeatable THEN Slice1(all) ELSE all
  IN {entries[i] : i \in {i \in 1..Len(entries) : entries[i].t = "obj"}}

\* C14: whatever the identifying field of the import, a nested upsert looks
\* an entity up by id only. A sub-record without id is written by a create
\* that no lookup precedes; a sub-record with an id is looked up by that id
\* and updates the entity found, or is created when none is found. The same
\* holds of every nested write in the log.
C14_NestedUpsertsIdentifyById ==
  InLoop =>
    \A k \in 1..Len(processed) :
      /\ \A n \in OpsOf(processed, k) :
           ops[n].depth > 0 =>
             /\ ops[n].op = "findOne" =>
                  ops[n].data["id"] # Undef /\ ops[n].data["name"] = Undef
             /\ (ops[n].op = "create" /\ ~Truthy(ops[n].data["id"])) =>
                  (n = processed[k].lo \/ ops[n - 1].op # "findOne")
             /\ (IsWrite(ops[n]) /\ Truthy(ops[n].data["id"])) =>
                  /\ n > processed[k].lo
                  /\ ops[n - 1].op = "findOne" /\ ops[n - 1].depth = ops[n].depth
                  /\ ops[n - 1].data["id"] = ops[n].data["id"]
                  /\ ops[n].op = (IF ops[n - 1].entry = Null THEN "create" ELSE "update")
                  /\ ops[n].op = "update" => ops[n].id = CastId(ops[n].data["id"])
             /\ ops[n].op = "update" => Truthy(ops[n].data["id"])
      /\ (\A n \in OpsOf(processed, k) : ops[n].depth > 0 => ops[n].ok) =>
           \A e \in SubRecords(call.slug, processed[k].orig) :
             \E n \in OpsOf(processed, k) :
               /\ ops[n].depth = 1 /\ IsWrite(ops[n]) /\ ops[n].data = e.o
               /\ ~Truthy(e.o["id"]) => ops[n].op = "create"

\* C14 witness: the same parent record was imported twice with name as the
\* identifying field; the second import updated the parent and created the
\* entity of its id-less sub-record a second time.
C14_Witness ==
  /\ Returned /\ call.idField = "name" /\ Len(processed) = 2
  /\ processed[1].orig = processed[2].orig
  /\ processed[1].success /\ processed[2].success
  /\ \E j \in OwnWrites(ops, processed, 2) : ops[j].op = "update"
  /\ \E n1 \in OpsOf(processed, 1), n2 \in OpsOf(processed, 2) :
       /\ ops[n1].op = "create" /\ ops[n1].depth = 1 /\ ops[n1].ok
       /\ ops[n2].op = "create" /\ ops[n2].depth = 1 /\ ops[n2].ok
       /\ ops[n1].data = ops[n2].data
       /\ ops[n1].entry.o["id"] # ops[n2].entry.o["id"]

\* C15: the data of every create and update has a value in every relation,
\* component, media and dynamic-zone attribute of its model, null where the
\* record supplied none; the entity an update returns has that value in the
\* field, so a field the record omits is null in the entity afterwards.
C15_OmittedRelationWrittenNull ==
  InLoop =>
    \A k \in 1..Len(processed) : \A j \in OpsOf(processed, k) :
      IsWrite(ops[j]) =>
        \A a \in 1..Len(RelationAttributes(ops[j].slug)) :
          LET name == RelationAttributes(ops[j].slug)[a].name
          IN /\ ops[j].data[name] # Undef
             /\ (ops[j].depth = 0 /\ IsNullish(Get(processed[k].orig, name))) =>
                  ops[j].data[name] = Null
             /\ (ops[j].op = "update" /\ ops[j].ok) =>
                  ops[j].entry.o[name] = ops[j].data[name]

\* C15 witness: the first record created an entity with a related entity in
\* tag; the second record, which has no tag, updated that entity, and its
\* tag is null.
C15_Witness ==
  /\ Returned /\ call.slug = "item" /\ Len(processed) = 2
  /\ Get(processed[2].orig, "tag") = Undef
  /\ \E j1 \in OwnWrites(ops, processed, 1), j2 \in OwnWrites(ops, processed, 2) :
       /\ ops[j1].op = "create" /\ ops[j1].ok /\ ops[j1].entry.o["tag"].t = "num"
       /\ ops[j2].op = "update" /\ ops[j2].ok
       /\ ops[j2].id = ops[j1].entry.o["id"].n
       /\ ops[j2].entry.o["tag"] = Null
       /\ \E i \in 1..Len(store["item"]) :
            /\ store["item"][i]["id"] = ops[j1].entry.o["id"]
            /\ store["item"][i]["tag"] = Null

====
